---- MODULE Spec2Model ----
(***************************************************************************)
(* Small-value-optimised byte/string containers of crates/istring:         *)
(* IBytes / IString (Base), SmallBytes / SmallString, TinyBytes /          *)
(* TinyString.  The model follows the 32-bit little-endian build           *)
(* (cfg(target_pointer_width = "32"), cfg(target_endian = "little")):      *)
(* a Base container is the 12 raw bytes of its union, read through the     *)
(* Inline view {data: [u8; 11], len: u8} or the Heap view                  *)
(* {ptr: usize, cap: usize, len: usize}.  The allocator is a sequence of   *)
(* allocation records; an address is an index into it.                     *)
(***************************************************************************)
EXTENDS Integers, Sequences, FiniteSets, TLC

VARIABLES
  kind,    \* the container type the run is about
  status,  \* "init", then "run" ("left", "both" while two containers are
           \* built to be compared), or how the run ended: "panic", "crash",
           \* "ub", "none" (TinyBytes::new returned None), "large" (a
           \* request for more than MaxBuf bytes went to the allocator)
  x,       \* the container: its raw bytes, or Absent
  c,       \* the clone of x (or the second container compared), or Absent
  v,       \* the Vec / String x was converted into
  mem,     \* the allocator's allocations
  wild,    \* an address the allocator never handed out was freed
  mut,     \* which of x and c is mutated after the clone
  since,   \* 0 before the clone, then 1 + the mutations since
  reallocs, \* the capacity changes of x a run of single-byte appends counts
  error,   \* the Utf8Error of the FromUtf8Error a from_utf8 returned
  out,     \* the bytes the last indexing returned
  last     \* the last call: its name, receiver and argument

vars == <<kind, status, x, c, v, mem, wild, mut, since, reallocs, error, out, last>>

----------------------------------------------------------------------------
(* Layout constants (ibytes.rs, 32-bit build)                              *)

IS_INLINE == 128

LEN_MASK == 127

INLINE_CAPACITY == 11

MAX_CAPACITY == 2147483647

\* size in bytes of one usize field of the Heap view
WORD == 4

\* Vec::with_capacity(0) allocates nothing and holds the dangling address
DANGLING == 1

\* smallest non-zero capacity Vec<u8> grows to (data.reserve in resize)
VEC_MIN_NON_ZERO_CAP == 8

\* content of a byte of a fresh allocation that was never written
Uninit == 256

----------------------------------------------------------------------------
(* Bounds of the model                                                     *)

\* longest content a container is grown to
MaxLen == 14

\* number of allocations one run may make
MaxAllocs == 2

\* largest capacity argument of with_capacity / move_to_heap
MaxCapArg == 13

\* largest `additional` argument of reserve / reserve_exact
MaxAdd == 2

\* longest slice appended in one call
MaxChunk == 3

\* largest heap capacity a run grows a container to
MaxCap == 32
\* mutations explored after a clone
MaxCloneOps == 2

\* largest offset into the source text a constructor's source slice starts at
MaxOff == 3
\* the longest run of single-byte appends
MaxPush == 40

\* the largest buffer whose bytes the allocator's record holds
MaxBuf == 4096

----------------------------------------------------------------------------
(* Arithmetic helpers                                                      *)

Max(a, b) == IF a >= b THEN a ELSE b

Min(a, b) == IF a <= b THEN a ELSE b

RECURSIVE Pow2From(_, _)
Pow2From(p, n) == IF p >= n THEN p ELSE Pow2From(2 * p, n)

\* usize::next_power_of_two
next_power_of_two(n) == Pow2From(1, n)

RECURSIVE Pow256(_)
Pow256(k) == IF k = 0 THEN 1 ELSE 256 * Pow256(k - 1)

\* the WORD little-endian bytes of n
LEBytes(n) == [i \in 1..WORD |-> (n \div Pow256(i - 1)) % 256]

\* the usize held in WORD little-endian bytes; a value with the most
\* significant bit set (2^31 and above) is kept as its two's complement
LEValue(bs) ==
  LET low == bs[1] + 256 * bs[2] + 65536 * bs[3] + 16777216 * (bs[4] % 128)
  IN IF bs[4] >= 128 THEN (low - MAX_CAPACITY) - 1 ELSE low

\* the length byte stored without the flag
NoFlag(b) == b

\* x | IS_INLINE on a u8
OrInline(b) == IF (b \div IS_INLINE) % 2 = 1 THEN b ELSE b + IS_INLINE

\* x & LEN_MASK on a u8
AndMask(b) == b % (LEN_MASK + 1)

----------------------------------------------------------------------------
(* UTF-8: char::encode_utf8 and str::from_utf8                             *)

encode_utf8(cp) ==
  IF cp < 128 THEN <<cp>>
  ELSE IF cp < 2048 THEN <<192 + (cp \div 64), 128 + (cp % 64)>>
  ELSE IF cp < 65536 THEN
    <<224 + (cp \div 4096), 128 + ((cp \div 64) % 64), 128 + (cp % 64)>>
  ELSE <<240 + (cp \div 262144), 128 + ((cp \div 4096) % 64),
         128 + ((cp \div 64) % 64), 128 + (cp % 64)>>

IsCont(b) == b >= 128 /\ b <= 191

RECURSIVE Utf8Valid(_)
Utf8Valid(s) ==
  IF s = <<>> THEN TRUE
  ELSE LET b == s[1]
           n == Len(s)
       IN IF b < 128 THEN Utf8Valid(Tail(s))
          ELSE IF b >= 194 /\ b <= 223 THEN
            n >= 2 /\ IsCont(s[2]) /\ Utf8Valid(SubSeq(s, 3, n))
          ELSE IF b >= 224 /\ b <= 239 THEN
            /\ n >= 3 /\ IsCont(s[2]) /\ IsCont(s[3])
            /\ (b = 224 => s[2] >= 160)
            /\ (b = 237 => s[2] <= 159)
            /\ Utf8Valid(SubSeq(s, 4, n))
          ELSE IF b >= 240 /\ b <= 244 THEN
            /\ n >= 4 /\ IsCont(s[2]) /\ IsCont(s[3]) /\ IsCont(s[4])
            /\ (b = 240 => s[2] >= 144)
            /\ (b = 244 => s[2] <= 143)
            /\ Utf8Valid(SubSeq(s, 5, n))
          ELSE FALSE

\* the width of the well-formed sequence s starts with, 0 when there is none
Utf8Width(s) ==
  LET b == s[1]
      n == Len(s)
  IN IF b < 128 THEN 1
     ELSE IF b >= 194 /\ b <= 223 THEN
       IF n >= 2 /\ IsCont(s[2]) THEN 2 ELSE 0
     ELSE IF b >= 224 /\ b <= 239 THEN
       IF /\ n >= 3 /\ IsCont(s[2]) /\ IsCont(s[3])
          /\ (b = 224 => s[2] >= 160)
          /\ (b = 237 => s[2] <= 159)
       THEN 3 ELSE 0
     ELSE IF b >= 240 /\ b <= 244 THEN
       IF /\ n >= 4 /\ IsCont(s[2]) /\ IsCont(s[3]) /\ IsCont(s[4])
          /\ (b = 240 => s[2] >= 144)
          /\ (b = 244 => s[2] <= 143)
       THEN 4 ELSE 0
     ELSE 0

\* Utf8Error::valid_up_to: the bytes str::from_utf8 accepted before it failed
RECURSIVE Utf8ValidUpTo(_)
Utf8ValidUpTo(s) ==
  IF s = <<>> \/ Utf8Width(s) = 0 THEN 0
  ELSE Utf8Width(s) + Utf8ValidUpTo(SubSeq(s, Utf8Width(s) + 1, Len(s)))

NoError == [has |-> FALSE, valid_up_to |-> 0]

\* str::from_utf8(s): Ok(_), or Err(Utf8Error)
str_from_utf8(s) ==
  IF Utf8Valid(s) THEN NoError
  ELSE [has |-> TRUE, valid_up_to |-> Utf8ValidUpTo(s)]

----------------------------------------------------------------------------
(* The source text the program appends pieces of: "Hé€l😀o wörld!"         *)

SourceChars == <<72, 233, 8364, 108, 128512, 111, 32, 119, 246, 114, 108, 100, 33>>

RECURSIVE EncodeAll(_)
EncodeAll(cs) == IF cs = <<>> THEN <<>> ELSE encode_utf8(cs[1]) \o EncodeAll(Tail(cs))

Tape == EncodeAll(SourceChars)

TapeByte(i) == Tape[((i - 1) % Len(Tape)) + 1]

\* the n bytes of the source text that follow its first `off` bytes
TapeSlice(off, n) == [i \in 1..n |-> TapeByte(off + i)]

\* str::is_char_boundary of the source text
TapeBoundary(i) == ~IsCont(TapeByte(i + 1))

RECURSIVE NextBoundary(_)
NextBoundary(i) == IF TapeBoundary(i) THEN i ELSE NextBoundary(i + 1)

----------------------------------------------------------------------------
(* The allocator.  mem[a] is the allocation at address a; mem[DANGLING] is *)
(* the zero-sized placeholder no Vec ever frees.                           *)

NoAlloc == [live |-> FALSE, buf |-> <<>>, rel |-> 0]

IsAddr(m, a) == a > DANGLING /\ a <= Len(m)

\* Vec::with_capacity(n) turned into raw parts: (ptr, cap) and the new memory
\* (an allocation of more than MaxBuf bytes is recorded without its bytes)
VecWithCapacity(m, n) ==
  IF n = 0 THEN [ptr |-> DANGLING, cap |-> 0, mem |-> m]
  ELSE [ptr |-> Len(m) + 1, cap |-> n,
        mem |-> Append(m, [live |-> TRUE,
                           buf |-> [i \in 1..(IF n <= MaxBuf THEN n ELSE 0) |-> Uninit],
                           rel |-> 0])]

\* ptr::copy_nonoverlapping into a buffer, `off` bytes after its start
WriteAt(buf, off, bytes) ==
  [i \in 1..Len(buf) |->
     IF i > off /\ i <= off + Len(bytes) THEN bytes[i - off] ELSE buf[i]]

MemWrite(m, a, off, bytes) ==
  IF IsAddr(m, a) THEN [m EXCEPT ![a].buf = WriteAt(m[a].buf, off, bytes)] ELSE m

\* the n bytes at the start of a buffer (slice::from_raw_parts)
ReadBuf(buf, n) == [i \in 1..n |-> IF i <= Len(buf) THEN buf[i] ELSE Uninit]

MemRead(m, a, n) == ReadBuf(IF IsAddr(m, a) THEN m[a].buf ELSE <<>>, n)

\* the allocator's dealloc: the bytes are gone, a second release of one
\* allocation is counted
Release(m, a) ==
  IF IsAddr(m, a)
  THEN [m EXCEPT ![a].live = FALSE, ![a].buf = <<>>, ![a].rel = Min(m[a].rel + 1, 2)]
  ELSE m

\* drop of Vec::from_raw_parts(ptr, len, cap): frees only a non-zero capacity
VecDrop(m, a, cap) == IF cap # 0 THEN Release(m, a) ELSE m

\* that drop frees an address the allocator never handed out
VecDropWild(m, a, cap) == cap # 0 /\ ~IsAddr(m, a)

\* realloc by Vec::reserve: the allocation keeps its address
Realloc(m, a, n) ==
  IF IsAddr(m, a)
  THEN [m EXCEPT ![a].buf = [i \in 1..n |-> IF i <= Len(m[a].buf) THEN m[a].buf[i] ELSE Uninit]]
  ELSE m

----------------------------------------------------------------------------
(* The union IBytesUnion as its raw bytes, and its two views               *)

UNION_SIZE == INLINE_CAPACITY + 1

\* Inline { data, len }
InlineData(u) == SubSeq(u, 1, INLINE_CAPACITY)

InlineLen(u) == u[UNION_SIZE]

\* Heap { ptr, cap, len }
HeapPtr(u) == LEValue(SubSeq(u, 1, WORD))

HeapCap(u) == LEValue(SubSeq(u, WORD + 1, 2 * WORD))

HeapLen(u) == LEValue(SubSeq(u, 2 * WORD + 1, 3 * WORD))

MkInline(data, lenbyte) == [i \in 1..UNION_SIZE |-> IF i <= INLINE_CAPACITY THEN data[i] ELSE lenbyte]

MkHeap(ptr, length, cap) == LEBytes(ptr) \o LEBytes(cap) \o LEBytes(length)

ZeroData == [i \in 1..INLINE_CAPACITY |-> 0]

\* results of an operation: how it ended, the container, the memory, and
\* whether it freed an address the allocator never handed out
Ok(u, m) == [st |-> "run", u |-> u, mem |-> m, wild |-> FALSE]

Panic(u, m) == [st |-> "panic", u |-> u, mem |-> m, wild |-> FALSE]

Crash(u, m) == [st |-> "crash", u |-> u, mem |-> m, wild |-> FALSE]

is_inline(u) == (InlineLen(u) \div IS_INLINE) % 2 = 1

len(u) == IF is_inline(u) THEN AndMask(InlineLen(u)) ELSE HeapLen(u)

capacity(u) == IF is_inline(u) THEN INLINE_CAPACITY ELSE HeapCap(u)

as_slice(u, m) ==
  IF is_inline(u) THEN ReadBuf(InlineData(u), len(u))
  ELSE MemRead(m, HeapPtr(u), len(u))

new == MkInline(ZeroData, IS_INLINE)

from_inline(data, lenbyte, m) ==
  IF lenbyte <= INLINE_CAPACITY THEN Ok(MkInline(data, OrInline(lenbyte)), m)
  ELSE Panic(new, m)

\* with_capacity with `capacity <= MAX_CAPACITY` for its assertion
with_capacity_le(m, cap) ==
  IF ~(cap <= MAX_CAPACITY) THEN Panic(new, m)
  ELSE IF cap > INLINE_CAPACITY
       THEN LET w == VecWithCapacity(m, cap)
            IN Ok(MkHeap(w.ptr, 0, w.cap), w.mem)
       ELSE Ok(MkInline(ZeroData, IS_INLINE), m)

\* with_capacity with `capacity >= INLINE_CAPACITY` for its threshold
with_capacity_ge(m, cap) ==
  IF ~(cap < MAX_CAPACITY) THEN Panic(new, m)
  ELSE IF cap >= INLINE_CAPACITY
       THEN LET w == VecWithCapacity(m, cap)
            IN Ok(MkHeap(w.ptr, 0, w.cap), w.mem)
       ELSE Ok(MkInline(ZeroData, IS_INLINE), m)

with_capacity(m, cap) ==
  IF ~(cap < MAX_CAPACITY) THEN Panic(new, m)
  ELSE IF cap > INLINE_CAPACITY
       THEN LET w == VecWithCapacity(m, cap)
            IN Ok(MkHeap(w.ptr, 0, w.cap), w.mem)
       ELSE Ok(MkInline(ZeroData, IS_INLINE), m)

set_len(u, m, new_len) ==
  IF ~(new_len <= capacity(u)) THEN Panic(u, m)
  ELSE IF is_inline(u)
       THEN Ok([u EXCEPT ![UNION_SIZE] = OrInline(new_len % 256)], m)
       ELSE Ok(SubSeq(u, 1, 2 * WORD) \o LEBytes(new_len), m)

\* faulty variant: move_to_heap without its assert!(cap >= self.len())
move_to_heap_unchecked(u, m, cap) ==
  IF is_inline(u)
  THEN LET n == len(u)
           w == VecWithCapacity(m, cap)
       IN Ok(MkHeap(w.ptr, n, w.cap),
             MemWrite(w.mem, w.ptr, 0, SubSeq(InlineData(u), 1, n)))
  ELSE Ok(u, m)

\* move_to_heap that allocates for the content only, Vec::with_capacity(len)
move_to_heap_tight(u, m, cap) ==
  IF is_inline(u)
  THEN IF ~(cap >= len(u)) \/ cap > MAX_CAPACITY THEN Panic(u, m)
       ELSE LET n == len(u)
                w == VecWithCapacity(m, n)
            IN Ok(MkHeap(w.ptr, n, w.cap),
                  MemWrite(w.mem, w.ptr, 0, SubSeq(InlineData(u), 1, n)))
  ELSE Ok(u, m)

move_to_heap(u, m, cap) ==
  IF is_inline(u)
  THEN IF ~(cap >= len(u)) \/ cap > MAX_CAPACITY THEN Panic(u, m)
       ELSE LET n == len(u)
                w == VecWithCapacity(m, cap)
            IN Ok(MkHeap(w.ptr, n, w.cap),
                  MemWrite(w.mem, w.ptr, 0, SubSeq(InlineData(u), 1, n)))
  ELSE Ok(u, m)

\* resize as Vec::reserve_exact would make it: the buffer grows to new_cap and
\* no further
resize_exact(u, m, new_cap) ==
  IF is_inline(u) \/ ~(new_cap >= len(u)) THEN Panic(u, m)
  ELSE IF ~(new_cap > HeapCap(u)) THEN Ok(u, m)
  ELSE IF HeapCap(u) = 0
       THEN LET w == VecWithCapacity(m, new_cap)
            IN Ok(LEBytes(w.ptr) \o LEBytes(w.cap) \o SubSeq(u, 2 * WORD + 1, 3 * WORD),
                  w.mem)
       ELSE Ok(LEBytes(HeapPtr(u)) \o LEBytes(new_cap) \o SubSeq(u, 2 * WORD + 1, 3 * WORD),
               Realloc(m, HeapPtr(u), new_cap))

resize(u, m, new_cap) ==
  IF is_inline(u) \/ ~(new_cap >= len(u)) THEN Panic(u, m)
  ELSE LET n    == len(u)
           ptr  == HeapPtr(u)
           cap  == HeapCap(u)
           additional == new_cap - n
           \* Vec::reserve: grows only when the spare capacity is too small,
           \* then to max(2 * cap, len + additional, 8)
           ncap == Max(Max(2 * cap, n + additional), VEC_MIN_NON_ZERO_CAP)
       IN IF ~(additional > cap - n) THEN Ok(u, m)
          ELSE IF ncap > MAX_CAPACITY THEN Panic(u, m)
          ELSE IF cap = 0
               THEN LET w == VecWithCapacity(m, ncap)
                    IN Ok(LEBytes(w.ptr) \o LEBytes(w.cap) \o SubSeq(u, 2 * WORD + 1, 3 * WORD),
                          w.mem)
               ELSE Ok(LEBytes(ptr) \o LEBytes(ncap) \o SubSeq(u, 2 * WORD + 1, 3 * WORD),
                       Realloc(m, ptr, ncap))

\* shrink reads the Heap view whatever the representation is.  On an inline
\* container the pointer and capacity it reads are the content bytes: a
\* read or a free through them is undefined behaviour, and `ub` chooses
\* between a crash and going on with what the read and the free did
\* (status "ub": garbage bytes where the address is no allocation).
GarbageByte == 255

\* faulty variant: shrink that sets the inline length and frees the buffer
\* but copies nothing back
shrink_nocopy(u, m, ub) ==
  LET n == len(u) IN
  IF n <= INLINE_CAPACITY
  THEN [st |-> "run", u |-> [u EXCEPT ![UNION_SIZE] = OrInline(n % 256)],
        mem |-> VecDrop(m, HeapPtr(u), HeapCap(u)), wild |-> FALSE]
  ELSE resize(u, m, n)

shrink(u, m, ub) ==
  LET n == len(u) IN
  IF n <= INLINE_CAPACITY
  THEN LET ptr == HeapPtr(u)
           cap == HeapCap(u)
           u1  == [u EXCEPT ![UNION_SIZE] = OrInline(n % 256)]
           wildRead == n > 0 /\ ~IsAddr(m, ptr)
           src == IF wildRead THEN [i \in 1..n |-> GarbageByte] ELSE MemRead(m, ptr, n)
           u2  == [i \in 1..UNION_SIZE |-> IF i <= n THEN src[i] ELSE u1[i]]
           wildFree == VecDropWild(m, ptr, cap)
           undefined == is_inline(u) /\ (n > 0 \/ cap # 0)
       IN IF undefined /\ ub = "crash" THEN Crash(u, m)
          ELSE [st |-> IF undefined THEN "ub" ELSE "run", u |-> u2,
                mem |-> VecDrop(m, ptr, cap), wild |-> wildFree]
  ELSE resize(u, m, n)

\* reserve that never promotes an inline container
reserve_heap_only(u, m, additional) ==
  IF is_inline(u) THEN Ok(u, m) ELSE resize(u, m, capacity(u) + additional)

reserve(u, m, additional) ==
  LET new_cap == capacity(u) + additional IN
  IF is_inline(u)
  THEN IF new_cap > INLINE_CAPACITY THEN move_to_heap(u, m, new_cap) ELSE Ok(u, m)
  ELSE resize(u, m, new_cap)

reserve_exact(u, m, additional) ==
  LET new_cap == capacity(u) + additional IN
  IF is_inline(u) THEN move_to_heap(u, m, new_cap) ELSE resize(u, m, new_cap)

\* faulty variant: extend_from_slice that copies to the start of the buffer
\* instead of to the old length
extend_from_slice_front(u, m, bytes) ==
  LET new_len == len(u) + Len(bytes)
      r == IF is_inline(u)
           THEN IF new_len > INLINE_CAPACITY
                THEN move_to_heap(u, m, next_power_of_two(new_len))
                ELSE Ok(u, m)
           ELSE IF new_len > capacity(u)
                THEN resize(u, m, next_power_of_two(new_len))
                ELSE Ok(u, m)
  IN IF r.st # "run" THEN r
     ELSE IF is_inline(r.u)
          THEN set_len(WriteAt(r.u, 0, bytes), r.mem, new_len)
          ELSE set_len(r.u, MemWrite(r.mem, HeapPtr(r.u), 0, bytes), new_len)

extend_from_slice(u, m, bytes) ==
  LET old_len == len(u)
      new_len == old_len + Len(bytes)
      r == IF is_inline(u)
           THEN IF new_len > INLINE_CAPACITY
                THEN move_to_heap(u, m, next_power_of_two(new_len))
                ELSE Ok(u, m)
           ELSE IF new_len > capacity(u)
                THEN resize(u, m, next_power_of_two(new_len))
                ELSE Ok(u, m)
  IN IF r.st # "run" THEN r
     ELSE IF is_inline(r.u)
          THEN set_len(WriteAt(r.u, old_len, bytes), r.mem, new_len)
          ELSE set_len(r.u, MemWrite(r.mem, HeapPtr(r.u), old_len, bytes), new_len)

push(u, m, byte) == extend_from_slice(u, m, <<byte>>)

\* impl Drop for IBytes
drop(u, m) ==
  IF ~is_inline(u)
  THEN [st |-> "run", u |-> u, mem |-> VecDrop(m, HeapPtr(u), HeapCap(u)),
        wild |-> VecDropWild(m, HeapPtr(u), HeapCap(u))]
  ELSE Ok(u, m)

\* faulty variant: From<&[u8]> that allocates but copies nothing on the heap path
from_slice_nocopy(m, s) ==
  IF Len(s) > INLINE_CAPACITY
  THEN LET w == VecWithCapacity(m, Len(s))
       IN Ok(MkHeap(w.ptr, Len(s), w.cap), w.mem)
  ELSE from_inline([i \in 1..INLINE_CAPACITY |-> IF i <= Len(s) THEN s[i] ELSE 0],
                   Len(s) % 256, m)

\* faulty variant: From<&[u8]> with the test len >= INLINE_CAPACITY
from_slice_ge(m, s) ==
  IF Len(s) >= INLINE_CAPACITY
  THEN LET w == VecWithCapacity(m, Len(s))
       IN Ok(MkHeap(w.ptr, Len(s), w.cap), MemWrite(w.mem, w.ptr, 0, s))
  ELSE from_inline([i \in 1..INLINE_CAPACITY |-> IF i <= Len(s) THEN s[i] ELSE 0],
                   Len(s) % 256, m)

\* impl From<&[u8]> for IBytes
from_slice(m, s) ==
  IF Len(s) > INLINE_CAPACITY
  THEN LET w == VecWithCapacity(m, Len(s))
       IN Ok(MkHeap(w.ptr, Len(s), w.cap), MemWrite(w.mem, w.ptr, 0, s))
  ELSE from_inline([i \in 1..INLINE_CAPACITY |-> IF i <= Len(s) THEN s[i] ELSE 0],
                   Len(s) % 256, m)

\* impl From<&str> for IString
from_str(m, s) ==
  LET r == with_capacity(m, Len(s))
  IN IF r.st # "run" THEN r ELSE extend_from_slice(r.u, r.mem, s)

\* IBytes::from(&[u8]) or IString::from(&str), by the type built
from_source(k, m, s) == IF k = "IString" THEN from_str(m, s) ELSE from_slice(m, s)

\* IString::from_utf8 without the check (from_utf8_unchecked)
from_utf8_unchecked(u, m) == [st |-> "run", u |-> u, mem |-> m, wild |-> FALSE, error |-> NoError]

\* IString::from_utf8(bytes): Ok(IString { bytes }), or
\* Err(FromUtf8Error { bytes, error })
from_utf8(u, m) ==
  LET e == str_from_utf8(as_slice(u, m))
  IN [st |-> IF e.has THEN "err" ELSE "run", u |-> u, mem |-> m, wild |-> FALSE, error |-> e]

\* FromUtf8Error::into_bytes, as_bytes and utf8_error, of the Err r
into_bytes(r) == r.u

as_bytes(r) == as_slice(r.u, r.mem)

utf8_error(r) == r.error

\* From<Vec<u8>> as SmallBytes does it: a Vec of at most INLINE_CAPACITY
\* bytes is copied inline and dropped
from_vec_by_len(m, ptr, length, cap) ==
  IF length > INLINE_CAPACITY THEN Ok(MkHeap(ptr, length, cap), m)
  ELSE from_slice(VecDrop(m, ptr, cap), MemRead(m, ptr, length))

\* From<Vec<u8>> that tests the length of the Vec, not its capacity
from_vec_len(m, ptr, length, cap) ==
  IF length # 0 THEN Ok(MkHeap(ptr, length, cap), m) ELSE Ok(new, m)

\* impl From<Vec<u8>> for IBytes, the Vec given by its raw parts
from_vec(m, ptr, length, cap) ==
  IF cap # 0 THEN Ok(MkHeap(ptr, length, cap), m) ELSE Ok(new, m)

\* impl Into<Vec<u8>> for IBytes: the container left holds the Vec's raw parts
into_vec(u, m) == IF is_inline(u) THEN move_to_heap(u, m, len(u)) ELSE Ok(u, m)

\* Clone as a bit copy of the union, whatever the representation
clone_bitwise(u, m) == Ok(u, m)

\* impl Clone for IBytes
clone(u, m) ==
  IF is_inline(u) THEN Ok(u, m)
  ELSE LET n == len(u)
           r == with_capacity(m, n)
       IN IF r.st # "run" THEN r
          ELSE extend_from_slice(r.u, r.mem, MemRead(m, HeapPtr(u), n))

\* truncate that shrinks after cutting
truncate_shrinking(u, m, new_len) ==
  IF new_len < len(u)
  THEN LET r == set_len(u, m, new_len)
       IN IF r.st = "run" /\ ~is_inline(r.u) THEN shrink(r.u, r.mem, "crash") ELSE r
  ELSE Ok(u, m)

\* IString::truncate
truncate(u, m, new_len) ==
  IF new_len < len(u) THEN set_len(u, m, new_len) ELSE Ok(u, m)

\* a write of one byte through DerefMut (as_mut_slice()[i] = b)
write_at(u, m, i, b) ==
  IF ~(i < len(u)) THEN Panic(u, m)
  ELSE IF is_inline(u) THEN Ok([u EXCEPT ![i + 1] = b], m)
       ELSE Ok(u, MemWrite(m, HeapPtr(u), i, <<b>>))

----------------------------------------------------------------------------
(* Comparison and hashing: every impl goes through the slice view          *)

\* <[u8] as Ord>::cmp, lexicographic: -1 Less, 0 Equal, 1 Greater
RECURSIVE slice_cmp(_, _)
slice_cmp(a, b) ==
  IF a = <<>> THEN (IF b = <<>> THEN 0 ELSE -1)
  ELSE IF b = <<>> THEN 1
  ELSE IF a[1] < b[1] THEN -1
  ELSE IF a[1] > b[1] THEN 1
  ELSE slice_cmp(Tail(a), Tail(b))

\* what <[u8] as Hash>::hash feeds the hasher: the length, then the bytes
slice_hash(a) == <<Len(a)>> \o a

\* what <str as Hash>::hash feeds the hasher: the bytes, then 0xff
str_hash(a) == a \o <<255>>

\* faulty variant: equality on the raw union bytes
eq_raw(u1, u2, m) == u1 = u2

eq(u1, u2, m) == as_slice(u1, m) = as_slice(u2, m)

cmp(u1, u2, m) == slice_cmp(as_slice(u1, m), as_slice(u2, m))

lt(u1, u2, m) == slice_cmp(as_slice(u1, m), as_slice(u2, m)) < 0

le(u1, u2, m) == slice_cmp(as_slice(u1, m), as_slice(u2, m)) <= 0

gt(u1, u2, m) == slice_cmp(as_slice(u1, m), as_slice(u2, m)) > 0

ge(u1, u2, m) == slice_cmp(as_slice(u1, m), as_slice(u2, m)) >= 0

hash(k, u, m) ==
  IF k = "IString" THEN str_hash(as_slice(u, m)) ELSE slice_hash(as_slice(u, m))

----------------------------------------------------------------------------
(* ops::Index: every form indexes the slice view                           *)

\* slice indexing that only checks a <= b and reads on past the end
slice_index_unchecked(s, a, b) ==
  IF a <= b
  THEN [st |-> "run", out |-> [i \in 1..(b - a) |-> IF a + i <= Len(s) THEN s[a + i] ELSE Uninit]]
  ELSE [st |-> "panic", out |-> <<>>]

\* <[u8] as Index<Range<usize>>>::index: s[a..b], or a panic
slice_index(s, a, b) ==
  IF a <= b /\ b <= Len(s)
  THEN [st |-> "run", out |-> SubSeq(s, a + 1, b)]
  ELSE [st |-> "panic", out |-> <<>>]

IndexForms ==
  {"range", "range_to", "range_from", "range_full", "range_inclusive", "range_to_inclusive"}

\* the Index impls of define_common_bytes!, on the slice view s
index(form, s, a, b) ==
  CASE form = "range" -> slice_index(s, a, b)
    [] form = "range_to" -> slice_index(s, 0, b)
    [] form = "range_from" -> slice_index(s, a, Len(s))
    [] form = "range_full" -> [st |-> "run", out |-> s]
    [] form = "range_inclusive" -> slice_index(s, a, b + 1)
    [] form = "range_to_inclusive" -> slice_index(s, 0, b + 1)

----------------------------------------------------------------------------
(* SmallBytes / SmallString: Inline { data, len } or Heap { ptr, len }     *)

SMALL_INLINE_CAPACITY == 7

SMALL_UNION_SIZE == SMALL_INLINE_CAPACITY + 1

small_is_inline(u) == (u[SMALL_UNION_SIZE] \div IS_INLINE) % 2 = 1

SmallHeapPtr(u) == LEValue(SubSeq(u, 1, WORD))

SmallHeapLen(u) == LEValue(SubSeq(u, WORD + 1, 2 * WORD))

small_len(u) ==
  IF small_is_inline(u) THEN AndMask(u[SMALL_UNION_SIZE]) ELSE SmallHeapLen(u)

small_as_slice(u, m) ==
  IF small_is_inline(u) THEN ReadBuf(SubSeq(u, 1, SMALL_INLINE_CAPACITY), small_len(u))
  ELSE MemRead(m, SmallHeapPtr(u), small_len(u))

small_from_inline(data, lenbyte, m) ==
  IF lenbyte <= SMALL_INLINE_CAPACITY
  THEN Ok([i \in 1..SMALL_UNION_SIZE |->
             IF i <= SMALL_INLINE_CAPACITY THEN data[i] ELSE OrInline(lenbyte)], m)
  ELSE Panic(<<>>, m)

small_from_heap(ptr, length, m) ==
  LET u == LEBytes(ptr) \o LEBytes(length)
  IN IF small_is_inline(u) THEN Panic(<<>>, m) ELSE Ok(u, m)

\* Box::from(s) turned into raw parts: an allocation of exactly Len(s) bytes
box_slice(m, s) ==
  LET w == VecWithCapacity(m, Len(s))
  IN [ptr |-> w.ptr, len |-> Len(s), mem |-> MemWrite(w.mem, w.ptr, 0, s)]

\* From<&[u8]> for SmallBytes with `len >= INLINE_CAPACITY` for its threshold
small_from_slice_ge(m, s) ==
  IF Len(s) >= SMALL_INLINE_CAPACITY
  THEN LET b == box_slice(m, s) IN small_from_heap(b.ptr, b.len, b.mem)
  ELSE small_from_inline([i \in 1..SMALL_INLINE_CAPACITY |-> IF i <= Len(s) THEN s[i] ELSE 0],
                         Len(s) % 256, m)

\* impl From<&[u8]> for SmallBytes, and From<&str> for SmallString through it
small_from_slice(m, s) ==
  IF Len(s) > SMALL_INLINE_CAPACITY
  THEN LET b == box_slice(m, s) IN small_from_heap(b.ptr, b.len, b.mem)
  ELSE small_from_inline([i \in 1..SMALL_INLINE_CAPACITY |-> IF i <= Len(s) THEN s[i] ELSE 0],
                         Len(s) % 256, m)

\* SmallBytes::new
small_new(m) == small_from_inline([i \in 1..SMALL_INLINE_CAPACITY |-> 0], 0, m)

\* From<Vec<u8>> for SmallBytes that hands the Vec's buffer over as it is,
\* spare capacity included
small_from_vec_as_is(m, ptr, length, cap) ==
  IF length <= SMALL_INLINE_CAPACITY
  THEN LET r == small_from_slice(m, MemRead(m, ptr, length))
       IN [r EXCEPT !.mem = VecDrop(r.mem, ptr, cap)]
  ELSE small_from_heap(ptr, length, m)

\* impl From<Vec<u8>> for SmallBytes, the Vec given by its raw parts: a short
\* Vec is copied and dropped, a long one becomes a boxed slice of len bytes
small_from_vec(m, ptr, length, cap) ==
  IF length <= SMALL_INLINE_CAPACITY
  THEN LET r == small_from_slice(m, MemRead(m, ptr, length))
       IN [r EXCEPT !.mem = VecDrop(r.mem, ptr, cap)]
  ELSE small_from_heap(ptr, length, IF cap # length THEN Realloc(m, ptr, length) ELSE m)

\* impl Clone for SmallBytes
small_clone(u, m) ==
  IF small_is_inline(u) THEN Ok(u, m)
  ELSE LET b == box_slice(m, MemRead(m, SmallHeapPtr(u), small_len(u)))
       IN small_from_heap(b.ptr, b.len, b.mem)

\* impl Drop for SmallBytes: a Box<[u8]> of len bytes at heap.ptr is freed;
\* `wild` when that is not an allocation of len bytes
small_drop(u, m) ==
  IF small_is_inline(u) THEN Ok(u, m)
  ELSE LET a == SmallHeapPtr(u)
       IN [st |-> "run", u |-> u, mem |-> Release(m, a),
           wild |-> ~(IsAddr(m, a) /\ m[a].live /\ Len(m[a].buf) = small_len(u))]

\* impl From<char> for SmallString
small_from_char(m, ch) ==
  LET e == encode_utf8(ch)
  IN small_from_inline([i \in 1..SMALL_INLINE_CAPACITY |-> IF i <= Len(e) THEN e[i] ELSE 0],
                       Len(e), m)

ITER_STRING_CAPACITY == 32

\* from_iter's spill that forgets s.push(c)
IterSpillNoChar(m, prefix, ch, rest) ==
  LET s == prefix \o EncodeAll(rest)
      w == VecWithCapacity(m, ITER_STRING_CAPACITY)
  IN small_from_vec(MemWrite(w.mem, w.ptr, 0, s), w.ptr, Len(s), w.cap)

\* from_iter, from the first char that does not fit the stack buffer: a
\* String::with_capacity(32) takes the prefix, that char and the rest, and is
\* converted
IterSpill(m, prefix, ch, rest) ==
  LET s == prefix \o encode_utf8(ch) \o EncodeAll(rest)
      w == VecWithCapacity(m, ITER_STRING_CAPACITY)
  IN small_from_vec(MemWrite(w.mem, w.ptr, 0, s), w.ptr, Len(s), w.cap)

\* impl FromIterator<char> for SmallString: the loop, with buf filled up to pos
RECURSIVE small_from_iter(_, _, _, _)
small_from_iter(m, buf, pos, cs) ==
  IF cs = <<>> THEN small_from_inline(buf, pos, m)
  ELSE LET e == encode_utf8(cs[1])
       IN IF pos + Len(e) > SMALL_INLINE_CAPACITY
          THEN IterSpill(m, SubSeq(buf, 1, pos), cs[1], Tail(cs))
          ELSE small_from_iter(m, WriteAt(buf, pos, e), pos + Len(e), Tail(cs))

\* SmallString::from_utf8(bytes)
small_from_utf8(u, m) ==
  LET e == str_from_utf8(small_as_slice(u, m))
  IN [st |-> IF e.has THEN "err" ELSE "run", u |-> u, mem |-> m, wild |-> FALSE, error |-> e]

----------------------------------------------------------------------------
(* TinyBytes { len, buf }, kept as the byte len followed by buf            *)

TINY_BUF == 7

TINY_TOO_LONG == 8

\* TinyBytes::new with `len > 8` for `len >= 8`: the copy loop then indexes
\* buf out of bounds
tiny_new_gt(m, s) ==
  IF Len(s) > TINY_TOO_LONG THEN [st |-> "none", u |-> <<>>, mem |-> m, wild |-> FALSE]
  ELSE IF Len(s) > TINY_BUF THEN Panic(<<>>, m)
  ELSE Ok(<<Len(s) % 256>> \o [i \in 1..TINY_BUF |-> IF i <= Len(s) THEN s[i] ELSE 0], m)

\* TinyBytes::new: None for a slice of 8 bytes or more
tiny_new(m, s) ==
  IF Len(s) >= TINY_TOO_LONG THEN [st |-> "none", u |-> <<>>, mem |-> m, wild |-> FALSE]
  ELSE Ok(<<Len(s) % 256>> \o [i \in 1..TINY_BUF |-> IF i <= Len(s) THEN s[i] ELSE 0], m)

\* impl Deref for TinyBytes
tiny_deref(t) == SubSeq(Tail(t), 1, t[1])

----------------------------------------------------------------------------
(* The program: one Base container x (an IBytes or an IString), at most    *)
(* one clone c of it, and at most one Vec/String v it was converted into.  *)
(* A run clones x right after building it, and from then on mutates one of *)
(* the two, `mut`, and keeps the other.                                    *)

Absent == <<>>

NoVec == [has |-> FALSE, ptr |-> 0, len |-> 0, cap |-> 0]

Kinds == {"IBytes", "IString"}

CapArgs == {0, INLINE_CAPACITY, INLINE_CAPACITY + 1, MaxCapArg}

\* lengths of the sources a container is built from
SrcLens == {0, Len(encode_utf8(SourceChars[1])), INLINE_CAPACITY, INLINE_CAPACITY + 1, MaxLen}

\* a byte offset inside the second char of the source text
MidChar == Len(encode_utf8(SourceChars[1])) + 1

AddArgs == {0, 1, MaxAdd}

UBOutcomes == {"crash", "garbage"}

Target(who) == IF who = "x" THEN x ELSE c

\* where the next appended piece of the source text starts
PieceStart(u) == IF kind = "IString" THEN NextBoundary(len(u)) ELSE len(u)

\* a piece of k bytes may be appended: a &str ends at a char boundary
PieceOk(u, k) ==
  /\ len(u) + k <= MaxLen
  /\ kind = "IString" => TapeBoundary(PieceStart(u) + k)

RECURSIVE CharFrom(_, _, _)
CharFrom(cs, i, off) ==
  IF off < Len(encode_utf8(cs[i])) THEN cs[i]
  ELSE CharFrom(cs, (i % Len(cs)) + 1, off - Len(encode_utf8(cs[i])))

\* the char of the source text that starts `off` bytes into it
CharAt(off) == CharFrom(SourceChars, 1, off % Len(Tape))

Init ==
  /\ kind \in Kinds
  /\ status = "init"
  /\ x = Absent
  /\ c = Absent
  /\ v = NoVec
  /\ mem = <<NoAlloc>>
  /\ wild = FALSE
  /\ mut = "x"
  /\ since = 0
  /\ reallocs = 0
  /\ error = NoError
  /\ out = <<>>
  /\ last = [op |-> "none", who |-> "x", arg |-> 0, off |-> 0]

\* a constructor returned r
Built(r, op, arg, off) ==
  /\ status = "init"
  /\ status' = r.st
  /\ x' = IF r.st = "run" THEN r.u ELSE Absent
  /\ mem' = IF r.st = "run" THEN r.mem ELSE mem
  /\ last' = [op |-> op, who |-> "x", arg |-> arg, off |-> off]
  /\ UNCHANGED <<kind, c, v, wild, mut, since, reallocs, error, out>>

New == Built(Ok(new, mem), "new", 0, 0)

WithCapacity == \E n \in CapArgs : Built(with_capacity(mem, n), "with_capacity", n, 0)

\* the capacities at the edge of with_capacity's assertion
EdgeCaps == {MAX_CAPACITY - 1, MAX_CAPACITY}

\* with_capacity at the edge of its assertion: the call panics, or it asks
\* the allocator for more than MaxBuf bytes and the run is followed no
\* further
WithCapacityEdge ==
  \E n \in EdgeCaps :
    LET r == with_capacity(mem, n)
    IN Built([st |-> IF r.st = "run" THEN "large" ELSE r.st,
              u |-> new, mem |-> mem, wild |-> FALSE],
             "with_capacity_edge", n, 0)

FromSlice ==
  \E n \in SrcLens :
    /\ kind = "IString" => TapeBoundary(n)
    /\ Built(from_source(kind, mem, TapeSlice(0, n)), "from_slice", n, 0)

\* a Vec<u8> / String of n bytes with `extra` spare capacity is converted
FromVec ==
  \E n \in SrcLens, extra \in {0, 1} :
    /\ kind = "IString" => TapeBoundary(n)
    /\ LET w == VecWithCapacity(mem, n + extra)
           m == MemWrite(w.mem, w.ptr, 0, TapeSlice(0, n))
       IN Built(from_vec(m, w.ptr, n, w.cap), "from_vec", n + extra, 0)

\* a mutating call on x or c returned r
Did(who, r, op, arg) ==
  /\ status = "run"
  /\ who = mut
  /\ mut' = mut
  /\ Target(who) # Absent
  /\ Len(r.mem) <= MaxAllocs + 1
  /\ r.st = "run" => capacity(r.u) <= MaxCap
  /\ since <= MaxCloneOps
  /\ since' = IF since > 0 THEN since + 1 ELSE 0
  /\ reallocs' = reallocs
  /\ error' = error
  /\ out' = out
  /\ status' = r.st
  /\ x' = IF r.st \in {"run", "ub"} /\ who = "x" THEN r.u ELSE x
  /\ c' = IF r.st \in {"run", "ub"} /\ who = "c" THEN r.u ELSE c
  /\ mem' = IF r.st \in {"run", "ub"} THEN r.mem ELSE mem
  /\ wild' = (wild \/ (r.st \in {"run", "ub"} /\ r.wild))
  /\ last' = [op |-> op, who |-> who, arg |-> arg, off |-> 0]
  /\ UNCHANGED <<kind, v>>

Live(who) == status = "run" /\ who = mut /\ Target(who) # Absent

\* the calls after which a run may clone x
BuildOps == {"new", "with_capacity", "from_slice", "from_vec", "extend_addr"}

\* what the program pushes onto u: the next byte, or the next char, of the tape
PushPiece(u) ==
  IF kind = "IString" THEN encode_utf8(CharAt(PieceStart(u)))
  ELSE <<TapeByte(len(u) + 1)>>

\* the k bytes the program appends to u
ExtendPiece(u, k) == TapeSlice(PieceStart(u), k)

\* the bytes of u.as_ptr() and u.capacity()
AddrPiece(u) == LEBytes(HeapPtr(u)) \o LEBytes(HeapCap(u))

\* IBytes::push(byte) / IString::push(ch)
Push(who) ==
  /\ Live(who)
  /\ LET u == Target(who)
         s == PushPiece(u)
     IN /\ len(u) + Len(s) <= MaxLen
        /\ Did(who, extend_from_slice(u, mem, s), "push", Len(s))

\* IBytes::extend_from_slice / IString::push_str, +=, write_str
Extend(who) ==
  /\ Live(who)
  /\ \E k \in 1..MaxChunk :
       LET u == Target(who)
           s == ExtendPiece(u, k)
       IN /\ PieceOk(u, k)
          /\ Did(who, extend_from_slice(u, mem, s), "extend", k)

\* the program appends the bytes of as_ptr() and capacity() to an empty
\* heap-resident IBytes
ExtendAddr(who) ==
  /\ Live(who)
  /\ kind = "IBytes"
  /\ LET u == Target(who)
         s == AddrPiece(u)
     IN /\ ~is_inline(u)
        /\ len(u) = 0
        /\ Did(who, extend_from_slice(u, mem, s), "extend_addr", Len(s))

Reserve(who) ==
  /\ Live(who)
  /\ \E a \in AddArgs : Did(who, reserve(Target(who), mem, a), "reserve", a)

ReserveExact(who) ==
  /\ Live(who)
  /\ \E a \in AddArgs :
       Did(who, reserve_exact(Target(who), mem, a), "reserve_exact", a)

MoveToHeap(who) ==
  /\ Live(who)
  /\ \E n \in {len(Target(who)) - 1, len(Target(who)), INLINE_CAPACITY + 1, MaxCapArg} :
       /\ n >= 0
       /\ Did(who, move_to_heap(Target(who), mem, n), "move_to_heap", n)

\* move_to_heap(n) directly followed by shrink()
RoundTrip(who) ==
  /\ Live(who)
  /\ len(Target(who)) <= INLINE_CAPACITY
  /\ \E n \in {len(Target(who)), INLINE_CAPACITY + 1} :
       LET r == move_to_heap(Target(who), mem, n)
       IN Did(who, IF r.st # "run" THEN r ELSE shrink(r.u, r.mem, "crash"), "round_trip", n)

Shrink(who) ==
  /\ Live(who)
  /\ \E ub \in UBOutcomes : Did(who, shrink(Target(who), mem, ub), "shrink", 0)

\* IString::truncate
Truncate(who) ==
  /\ Live(who)
  /\ kind = "IString"
  /\ \E n \in {0, MidChar, INLINE_CAPACITY, len(Target(who)) + 1} :
       Did(who, truncate(Target(who), mem, n), "truncate", n)

\* a write through IBytes's DerefMut
Write(who) ==
  /\ Live(who)
  /\ kind = "IBytes"
  /\ \E i \in {0, len(Target(who))} :
       Did(who, write_at(Target(who), mem, i, 42), "write", i)

Clone ==
  /\ status = "run"
  /\ x # Absent
  /\ c = Absent
  /\ last.op \in BuildOps
  /\ mut' \in {"x", "c"}
  /\ LET r == clone(x, mem)
     IN /\ Len(r.mem) <= MaxAllocs + 1
        /\ status' = r.st
        /\ c' = IF r.st = "run" THEN r.u ELSE c
        /\ mem' = IF r.st = "run" THEN r.mem ELSE mem
        /\ last' = [op |-> "clone", who |-> "x", arg |-> 0, off |-> 0]
        /\ since' = 1
        /\ reallocs' = reallocs
        /\ error' = error
        /\ out' = out
        /\ UNCHANGED <<kind, x, v, wild>>

Drop(who) ==
  /\ status = "run"
  /\ Target(who) # Absent
  /\ LET r == drop(Target(who), mem)
     IN /\ x' = IF who = "x" THEN Absent ELSE x
        /\ c' = IF who = "c" THEN Absent ELSE c
        /\ mem' = r.mem
        /\ wild' = (wild \/ r.wild)
        /\ last' = [op |-> "drop", who |-> who, arg |-> 0, off |-> 0]
        /\ UNCHANGED <<kind, status, v, mut, since, reallocs, error, out>>

\* impl Into<Vec<u8>> for IBytes / Into<String> for IString
IntoVec ==
  /\ Live("x")
  /\ ~v.has
  /\ LET r == into_vec(x, mem)
     IN /\ Len(r.mem) <= MaxAllocs + 1
        /\ status' = r.st
        /\ x' = IF r.st = "run" THEN Absent ELSE x
        /\ v' = IF r.st = "run"
                THEN [has |-> TRUE, ptr |-> HeapPtr(r.u), len |-> HeapLen(r.u),
                      cap |-> HeapCap(r.u)]
                ELSE v
        /\ mem' = IF r.st = "run" THEN r.mem ELSE mem
        /\ last' = [op |-> "into_vec", who |-> "x", arg |-> 0, off |-> 0]
        /\ UNCHANGED <<kind, c, wild, mut, since, reallocs, error, out>>

DropVec ==
  /\ status = "run"
  /\ v.has
  /\ v' = NoVec
  /\ mem' = VecDrop(mem, v.ptr, v.cap)
  /\ wild' = (wild \/ VecDropWild(mem, v.ptr, v.cap))
  /\ last' = [op |-> "drop_vec", who |-> "x", arg |-> 0, off |-> 0]
  /\ UNCHANGED <<kind, status, x, c, mut, since, reallocs, error, out>>

\* x, just built, is moved into a spawned thread (test_thread): a move
\* copies nothing
MoveToThread ==
  /\ status = "run"
  /\ x # Absent
  /\ last.op \in BuildOps
  /\ last' = [op |-> "move", who |-> "x", arg |-> 0, off |-> 0]
  /\ UNCHANGED <<kind, status, x, c, v, mem, wild, mut, since, reallocs, error, out>>

Next ==
  \/ New
  \/ WithCapacity
  \/ WithCapacityEdge
  \/ FromSlice
  \/ FromVec
  \/ \E who \in {"x", "c"} : Push(who)
  \/ \E who \in {"x", "c"} : Extend(who)
  \/ \E who \in {"x", "c"} : ExtendAddr(who)
  \/ \E who \in {"x", "c"} : Reserve(who)
  \/ \E who \in {"x", "c"} : ReserveExact(who)
  \/ \E who \in {"x", "c"} : MoveToHeap(who)
  \/ \E who \in {"x", "c"} : Shrink(who)
  \/ \E who \in {"x", "c"} : RoundTrip(who)
  \/ \E who \in {"x", "c"} : Truncate(who)
  \/ \E who \in {"x", "c"} : Write(who)
  \/ Clone
  \/ \E who \in {"x", "c"} : Drop(who)
  \/ IntoVec
  \/ DropVec
  \/ MoveToThread

Spec == Init /\ [][Next]_vars

----------------------------------------------------------------------------
(* The borrowed-slice constructors, each applied to every slice of the     *)
(* source text that starts in its first MaxOff bytes                       *)

CtorKinds == {"IBytes", "IString", "SmallBytes", "SmallString", "TinyBytes", "TinyString"}

SrcOffs == 0..MaxOff

\* the slice is a &str: it starts and ends at a char boundary
StrOk(off, n) == TapeBoundary(off) /\ TapeBoundary(off + n)

InitCtor ==
  /\ kind \in CtorKinds
  /\ status = "init"
  /\ x = Absent
  /\ c = Absent
  /\ v = NoVec
  /\ mem = <<NoAlloc>>
  /\ wild = FALSE
  /\ mut = "x"
  /\ since = 0
  /\ reallocs = 0
  /\ error = NoError
  /\ out = <<>>
  /\ last = [op |-> "none", who |-> "x", arg |-> 0, off |-> 0]

IBytesFrom ==
  /\ kind = "IBytes"
  /\ \E off \in SrcOffs, n \in 0..MaxLen :
       Built(from_slice(mem, TapeSlice(off, n)), "from_slice", n, off)

IStringFrom ==
  /\ kind = "IString"
  /\ \E off \in SrcOffs, n \in 0..MaxLen :
       /\ StrOk(off, n)
       /\ Built(from_str(mem, TapeSlice(off, n)), "from_str", n, off)

SmallBytesFrom ==
  /\ kind = "SmallBytes"
  /\ \E off \in SrcOffs, n \in 0..MaxLen :
       Built(small_from_slice(mem, TapeSlice(off, n)), "small_from_slice", n, off)

SmallStringFrom ==
  /\ kind = "SmallString"
  /\ \E off \in SrcOffs, n \in 0..MaxLen :
       /\ StrOk(off, n)
       /\ Built(small_from_slice(mem, TapeSlice(off, n)), "small_from_str", n, off)

TinyBytesNew ==
  /\ kind = "TinyBytes"
  /\ \E off \in SrcOffs, n \in 0..MaxLen :
       Built(tiny_new(mem, TapeSlice(off, n)), "tiny_new", n, off)

\* TinyString::new(s): TinyBytes::new(s.as_bytes()), wrapped
TinyStringNew ==
  /\ kind = "TinyString"
  /\ \E off \in SrcOffs, n \in 0..MaxLen :
       /\ StrOk(off, n)
       /\ Built(tiny_new(mem, TapeSlice(off, n)), "tiny_str_new", n, off)

NextCtor ==
  \/ IBytesFrom
  \/ IStringFrom
  \/ SmallBytesFrom
  \/ SmallStringFrom
  \/ TinyBytesNew
  \/ TinyStringNew

SpecCtor == InitCtor /\ [][NextCtor]_vars

----------------------------------------------------------------------------
(* Two containers of one type compared: x built from a slice, c built from *)
(* a slice by one of three routes                                          *)

InitCmp ==
  /\ kind \in Kinds
  /\ status = "init"
  /\ x = Absent
  /\ c = Absent
  /\ v = NoVec
  /\ mem = <<NoAlloc>>
  /\ wild = FALSE
  /\ mut = "x"
  /\ since = 0
  /\ reallocs = 0
  /\ error = NoError
  /\ out = <<>>
  /\ last = [op |-> "none", who |-> "x", arg |-> 0, off |-> 0]

CmpLeft ==
  /\ status = "init"
  /\ \E off \in SrcOffs, n \in 0..MaxLen :
       LET r == from_source(kind, mem, TapeSlice(off, n))
       IN /\ kind = "IString" => StrOk(off, n)
          /\ r.st = "run"
          /\ x' = r.u
          /\ mem' = r.mem
          /\ status' = "left"
          /\ last' = [op |-> "from_slice", who |-> "x", arg |-> n, off |-> off]
          /\ UNCHANGED <<kind, c, v, wild, mut, since, reallocs, error, out>>

\* the right-hand container was built as r
CmpRight(r, op, n, off) ==
  /\ status = "left"
  /\ kind = "IString" => StrOk(off, n)
  /\ r.st = "run"
  /\ c' = r.u
  /\ mem' = r.mem
  /\ status' = "both"
  /\ last' = [op |-> op, who |-> "c", arg |-> n, off |-> off]
  /\ UNCHANGED <<kind, x, v, wild, mut, since, reallocs, error, out>>

CmpRightSlice ==
  \E off \in SrcOffs, n \in 0..MaxLen :
    CmpRight(from_source(kind, mem, TapeSlice(off, n)), "from_slice", n, off)

\* with_capacity(cap > C) followed by an append
CmpRightAppend ==
  \E off \in SrcOffs, n \in 0..MaxLen, cap \in {INLINE_CAPACITY + 1, MaxCapArg} :
    LET w == with_capacity(mem, cap)
    IN CmpRight(IF w.st # "run" THEN w ELSE extend_from_slice(w.u, w.mem, TapeSlice(off, n)),
                "with_capacity", n, off)

\* from(slice) followed by move_to_heap(len)
CmpRightMove ==
  \E off \in SrcOffs, n \in 0..MaxLen :
    LET r == from_source(kind, mem, TapeSlice(off, n))
    IN CmpRight(IF r.st # "run" THEN r ELSE move_to_heap(r.u, r.mem, n),
                "move_to_heap", n, off)

NextCmp ==
  \/ CmpLeft
  \/ CmpRightSlice
  \/ CmpRightAppend
  \/ CmpRightMove

SpecCmp == InitCmp /\ [][NextCmp]_vars

----------------------------------------------------------------------------
(* SpecPush: single bytes are appended, one at a time, to a container that  *)
(* was built empty                                                          *)

InitPush == Init /\ kind = "IBytes"

\* IBytes::from(Vec::with_capacity(cap)): an empty Vec with a buffer
EmptyVec ==
  \E cap \in {1, INLINE_CAPACITY} :
    LET w == VecWithCapacity(mem, cap)
    IN Built(from_vec(w.mem, w.ptr, 0, w.cap), "from_vec", cap, 0)

\* IBytes::push(byte); the run counts the calls that changed the capacity
PushByte ==
  /\ status = "run"
  /\ x # Absent
  /\ len(x) < MaxPush
  /\ LET r == push(x, mem, TapeByte(len(x) + 1))
     IN /\ status' = r.st
        /\ x' = IF r.st = "run" THEN r.u ELSE x
        /\ mem' = IF r.st = "run" THEN r.mem ELSE mem
        /\ reallocs' = IF r.st = "run" /\ capacity(r.u) # capacity(x)
                       THEN reallocs + 1 ELSE reallocs
  /\ last' = [op |-> "push", who |-> "x", arg |-> 1, off |-> 0]
  /\ UNCHANGED <<kind, c, v, wild, mut, since, error, out>>

NextPush ==
  \/ New
  \/ WithCapacity
  \/ EmptyVec
  \/ PushByte

SpecPush == InitPush /\ [][NextPush]_vars

----------------------------------------------------------------------------
(* SpecUtf8: a byte container is built from a slice, of text or not, and   *)
(* from_utf8 is called on it                                               *)

InitUtf8 ==
  /\ kind \in {"IBytes", "SmallBytes"}
  /\ status = "init"
  /\ x = Absent
  /\ c = Absent
  /\ v = NoVec
  /\ mem = <<NoAlloc>>
  /\ wild = FALSE
  /\ mut = "x"
  /\ since = 0
  /\ reallocs = 0
  /\ error = NoError
  /\ out = <<>>
  /\ last = [op |-> "none", who |-> "x", arg |-> 0, off |-> 0]

\* from_utf8 returned r: x is the text container, or the bytes the
\* FromUtf8Error holds
Decoded(r, text) ==
  /\ status = "run"
  /\ last.op \in {"from_slice", "small_from_slice"}
  /\ status' = r.st
  /\ kind' = IF r.st = "run" THEN text ELSE kind
  /\ x' = into_bytes(r)
  /\ mem' = r.mem
  /\ error' = utf8_error(r)
  /\ last' = [last EXCEPT !.op = "from_utf8"]
  /\ UNCHANGED <<c, v, wild, mut, since, reallocs, out>>

IStringFromUtf8 == kind = "IBytes" /\ Decoded(from_utf8(x, mem), "IString")

SmallStringFromUtf8 == kind = "SmallBytes" /\ Decoded(small_from_utf8(x, mem), "SmallString")

NextUtf8 ==
  \/ IBytesFrom
  \/ SmallBytesFrom
  \/ IStringFromUtf8
  \/ SmallStringFromUtf8

SpecUtf8 == InitUtf8 /\ [][NextUtf8]_vars

----------------------------------------------------------------------------
(* SpecSmall: a SmallBytes / SmallString x is built by one of the safe     *)
(* constructors, cloned into c, and the two are dropped                    *)

InitSmall == InitCtor /\ kind \in {"SmallBytes", "SmallString"}

SmallNew == Built(small_new(mem), "small_new", 0, 0)

\* SmallBytes::from(Vec) / SmallString::from(String), of n bytes with
\* `extra` spare capacity
SmallFromVec ==
  \E off \in SrcOffs, n \in 0..MaxLen, extra \in {0, 1} :
    /\ kind = "SmallString" => StrOk(off, n)
    /\ LET w == VecWithCapacity(mem, n + extra)
           m == MemWrite(w.mem, w.ptr, 0, TapeSlice(off, n))
       IN Built(small_from_vec(m, w.ptr, n, w.cap), "small_from_vec", n, off)

\* the byte offset of the i-th char of the source text
CharOff(i) == Len(EncodeAll(SubSeq(SourceChars, 1, i - 1)))

SmallFromChar ==
  /\ kind = "SmallString"
  /\ \E i \in 1..Len(SourceChars) :
       Built(small_from_char(mem, SourceChars[i]), "small_from_char",
             Len(encode_utf8(SourceChars[i])), CharOff(i))

\* the chars i..j of the source text are collected
SmallFromIter ==
  /\ kind = "SmallString"
  /\ \E i \in 1..Len(SourceChars), j \in 0..Len(SourceChars) :
       /\ j >= i - 1
       /\ Built(small_from_iter(mem, [k \in 1..SMALL_INLINE_CAPACITY |-> 0], 0,
                                SubSeq(SourceChars, i, j)),
                "small_from_iter", CharOff(j + 1) - CharOff(i), CharOff(i))

SmallClone ==
  /\ status = "run"
  /\ x # Absent
  /\ c = Absent
  /\ last.op # "small_drop"
  /\ LET r == small_clone(x, mem)
     IN /\ status' = r.st
        /\ c' = IF r.st = "run" THEN r.u ELSE c
        /\ mem' = IF r.st = "run" THEN r.mem ELSE mem
  /\ last' = [last EXCEPT !.op = "small_clone"]
  /\ UNCHANGED <<kind, x, v, wild, mut, since, reallocs, error, out>>

SmallDrop(who) ==
  /\ status = "run"
  /\ Target(who) # Absent
  /\ LET r == small_drop(Target(who), mem)
     IN /\ x' = IF who = "x" THEN Absent ELSE x
        /\ c' = IF who = "c" THEN Absent ELSE c
        /\ mem' = r.mem
        /\ wild' = (wild \/ r.wild)
  /\ last' = [last EXCEPT !.op = "small_drop", !.who = who]
  /\ UNCHANGED <<kind, status, v, mut, since, reallocs, error, out>>

NextSmall ==
  \/ SmallNew
  \/ SmallBytesFrom
  \/ SmallStringFrom
  \/ SmallFromVec
  \/ SmallFromChar
  \/ SmallFromIter
  \/ SmallClone
  \/ SmallDrop("x")
  \/ SmallDrop("c")

SpecSmall == InitSmall /\ [][NextSmall]_vars

----------------------------------------------------------------------------
(* SpecIndex: a byte container is built, with or without spare room after  *)
(* its content, and indexed with a range                                   *)

InitIndex == InitCtor /\ kind \in {"IBytes", "SmallBytes"}

\* x is built from the first n bytes of the source text: from the slice, or
\* as IBytes::with_capacity(MaxCapArg) filled with them, a heap buffer with
\* room after the content
IndexBuild ==
  \E n \in 0..MaxLen, spare \in BOOLEAN :
    /\ spare => (kind = "IBytes" /\ n <= MaxCapArg)
    /\ LET w == with_capacity(mem, MaxCapArg)
           r == IF spare THEN extend_from_slice(w.u, w.mem, TapeSlice(0, n))
                ELSE IF kind = "IBytes" THEN from_slice(mem, TapeSlice(0, n))
                ELSE small_from_slice(mem, TapeSlice(0, n))
       IN Built(r, IF spare THEN "filled" ELSE "from_slice", n, 0)

\* the slice view of x
View == IF kind = "IBytes" THEN as_slice(x, mem) ELSE small_as_slice(x, mem)

\* &x[a..b], &x[..b], &x[a..], &x[..], &x[a..=b], &x[..=b]
Index ==
  /\ status = "run"
  /\ last.op \notin IndexForms
  /\ \E form \in IndexForms, a \in 0..MaxLen + 1, b \in 0..MaxLen + 1 :
       LET r == index(form, View, a, b)
       IN /\ status' = r.st
          /\ out' = r.out
          /\ last' = [op |-> form, who |-> "x", arg |-> a, off |-> b]
  /\ UNCHANGED <<kind, x, c, v, mem, wild, mut, since, reallocs, error>>

NextIndex ==
  \/ IndexBuild
  \/ Index

SpecIndex == InitIndex /\ [][NextIndex]_vars

----------------------------------------------------------------------------
(* SpecLayout: the runs of Spec (Base containers) and those of SpecSmall   *)
(* (Small containers) together                                             *)

InitLayout == InitCtor /\ kind \in Kinds \cup {"SmallBytes", "SmallString"}

NextLayout ==
  \/ kind \in Kinds /\ Next
  \/ kind \notin Kinds /\ NextSmall

SpecLayout == InitLayout /\ [][NextLayout]_vars

----------------------------------------------------------------------------
(* Properties                                                              *)

\* the source slice the last constructor call was given
LastSource == TapeSlice(last.off, last.arg)

\* C1 (SpecCtor): the container a borrowed-slice constructor builds from b
\* has len() = len(b) and a slice view equal to b, inline or heap-resident;
\* TinyBytes::new builds one whenever len(b) <= 7, and no constructor panics.
C1_RoundTrip ==
  /\ status # "panic"
  /\ (kind = "TinyBytes" /\ last.op = "tiny_new" /\ last.arg <= TINY_BUF) => status = "run"
  /\ status = "run" =>
       CASE kind \in {"IBytes", "IString"} ->
              len(x) = Len(LastSource) /\ as_slice(x, mem) = LastSource
         [] kind \in {"SmallBytes", "SmallString"} ->
              small_len(x) = Len(LastSource) /\ small_as_slice(x, mem) = LastSource
         [] OTHER ->
              x[1] = Len(LastSource) /\ tiny_deref(x) = LastSource

\* C1 witness: an IBytes built on the heap from a slice that starts inside
\* the source text
C1_Witness ==
  /\ status = "run"
  /\ kind = "IBytes"
  /\ last.op = "from_slice"
  /\ last.off > 0
  /\ ~is_inline(x)
  /\ as_slice(x, mem) = LastSource

\* C2 (SpecCmp): eq, cmp, lt, le, gt, ge and hash of two containers are the
\* results computed on their slice views, so two containers with equal
\* slice views have equal len(), compare equal and hash alike whichever of
\* them is inline.
C2_Transparent ==
  status = "both" =>
    LET a == as_slice(x, mem)
        b == as_slice(c, mem)
    IN /\ eq(x, c, mem) = (a = b)
       /\ cmp(x, c, mem) = slice_cmp(a, b)
       /\ lt(x, c, mem) = (slice_cmp(a, b) = -1)
       /\ le(x, c, mem) = (slice_cmp(a, b) # 1)
       /\ gt(x, c, mem) = (slice_cmp(a, b) = 1)
       /\ ge(x, c, mem) = (slice_cmp(a, b) # -1)
       /\ hash(kind, x, mem) = (IF kind = "IString" THEN str_hash(a) ELSE slice_hash(a))
       /\ a = b =>
            /\ len(x) = len(c)
            /\ eq(x, c, mem) /\ eq(c, x, mem)
            /\ cmp(x, c, mem) = 0
            /\ ~lt(x, c, mem) /\ le(x, c, mem) /\ ~gt(x, c, mem) /\ ge(x, c, mem)
            /\ hash(kind, x, mem) = hash(kind, c, mem)

\* C2 witness: equal non-empty content, x inline and c heap-resident
C2_Witness ==
  /\ status = "both"
  /\ is_inline(x)
  /\ ~is_inline(c)
  /\ len(x) > 0
  /\ as_slice(x, mem) = as_slice(c, mem)

\* C3 (Spec): in every state of a Base container capacity() >= len().
C3_CapacityBound ==
  \A who \in {"x", "c"} :
    Target(who) # Absent => capacity(Target(who)) >= len(Target(who))

\* C3 witness: a single-byte append has just promoted x to the heap
C3_Witness ==
  /\ status = "run"
  /\ kind = "IBytes"
  /\ last.op = "push"
  /\ last.who = "x"
  /\ x # Absent
  /\ ~is_inline(x)
  /\ len(x) = INLINE_CAPACITY + 1
  /\ capacity(x) = next_power_of_two(len(x))

\* C4 (Spec): the content of an IString is valid UTF-8 in every state
\* reached through the safe API, truncate(new_len) for any new_len included.
C4_Utf8 ==
  (kind = "IString" /\ status = "run") =>
    \A who \in {"x", "c"} :
      Target(who) # Absent => Utf8Valid(as_slice(Target(who), mem))

\* the containers and the Vec that own allocation a
Owners(a) ==
  {who \in {"x", "c"} :
     /\ Target(who) # Absent
     /\ ~is_inline(Target(who))
     /\ HeapCap(Target(who)) # 0
     /\ HeapPtr(Target(who)) = a}
  \cup (IF v.has /\ v.cap # 0 /\ v.ptr = a THEN {"v"} ELSE {})

\* C5 (Spec): every heap allocation has exactly one owner while it is live
\* and is released exactly once; nothing else is ever released.
C5_ExclusiveOwnership ==
  /\ ~wild
  /\ \A a \in (DANGLING + 1)..Len(mem) :
       IF mem[a].live THEN Cardinality(Owners(a)) = 1 /\ mem[a].rel = 0
       ELSE Owners(a) = {} /\ mem[a].rel = 1

\* the container a run keeps untouched after the clone
Kept == IF mut = "x" THEN c ELSE x

\* C6 (Spec): c's content at clone time equals x's, and after the clone of a
\* heap-resident x no mutation or drop of one of the two changes the other's
\* length, content, capacity or allocation.
C6_CloneIndependent ==
  [][ /\ (last'.op = "clone" /\ status' = "run") =>
           as_slice(c', mem') = as_slice(x, mem)
      /\ (since > 0 /\ x # Absent /\ c # Absent /\ ~is_inline(Kept)
          /\ last'.who = mut /\ last'.op \notin {"clone", "move", "drop_vec"}) =>
           /\ (IF mut = "x" THEN c' ELSE x') = Kept
           /\ as_slice(Kept, mem') = as_slice(Kept, mem)
           /\ IsAddr(mem, HeapPtr(Kept)) => mem'[HeapPtr(Kept)] = mem[HeapPtr(Kept)]
    ]_vars

\* C7 (SpecCtor): an IBytes built from a borrowed byte slice, or an IString
\* from a &str, is inline iff the source length is <= C: inline at exactly
\* C, heap-resident at C + 1.
C7_Threshold ==
  kind \in Kinds =>
    /\ status # "panic"
    /\ status = "run" => (is_inline(x) <=> last.arg <= INLINE_CAPACITY)

\* C7 witness: an IBytes built from exactly C bytes is inline
C7_Witness ==
  /\ status = "run"
  /\ kind = "IBytes"
  /\ last.arg = INLINE_CAPACITY
  /\ is_inline(x)
  /\ len(x) = INLINE_CAPACITY

\* the container an append, shrink or round trip is about to act on
Before == Target(last'.who)

After == IF last'.who = "x" THEN x' ELSE c'

\* the bytes the append appends
Appended ==
  IF last'.op = "push" THEN PushPiece(Before)
  ELSE IF last'.op = "extend" THEN ExtendPiece(Before, last'.arg)
  ELSE AddrPiece(Before)

\* C8 (Spec): after push / extend_from_slice / push_str of s the slice view
\* is the old content followed by s; an inline container stays inline while
\* the total length is <= C and is heap-resident once it exceeds C.
C8_Append ==
  [][ (last'.op \in {"push", "extend", "extend_addr"} /\ status = "run") =>
        /\ status' = "run"
        /\ as_slice(After, mem') = as_slice(Before, mem) \o Appended
        /\ len(After) = len(Before) + Len(Appended)
        /\ is_inline(Before) =>
             (is_inline(After) <=> len(Before) + Len(Appended) <= INLINE_CAPACITY)
    ]_vars

\* C8 witness: an append of several bytes has taken x across the inline
\* capacity
C8_Witness ==
  /\ status = "run"
  /\ last.op = "extend"
  /\ last.who = "x"
  /\ last.arg > 1
  /\ x # Absent
  /\ ~is_inline(x)
  /\ len(x) = INLINE_CAPACITY + 1
  /\ capacity(x) = next_power_of_two(len(x))
  /\ as_slice(x, mem) = TapeSlice(0, len(x))

\* C9 (Spec): shrink() on a container longer than the inline capacity leaves
\* it heap-resident with capacity() = len() and the content unchanged.
C9_ShrinkExact ==
  [][ (last'.op = "shrink" /\ status = "run" /\ len(Before) > INLINE_CAPACITY) =>
        /\ status' = "run"
        /\ ~is_inline(After)
        /\ capacity(After) = len(After)
        /\ as_slice(After, mem') = as_slice(Before, mem)
    ]_vars

\* C10 (Spec): move_to_heap(cap) followed by shrink() on a container with
\* len() <= C and cap >= len() yields an inline container with the length
\* and content it had before, and the allocation it held in between is
\* released, once, and no other.
C10_ShrinkGrow ==
  [][ (last'.op = "round_trip" /\ status = "run") =>
        /\ status' = "run"
        /\ wild' = wild
        /\ is_inline(After)
        /\ len(After) = len(Before)
        /\ as_slice(After, mem') = as_slice(Before, mem)
        /\ LET a == IF is_inline(Before) THEN Len(mem) + 1 ELSE HeapPtr(Before)
               made == IF is_inline(Before) THEN last'.arg # 0 ELSE HeapCap(Before) # 0
           IN /\ made => (IsAddr(mem', a) /\ ~mem'[a].live /\ mem'[a].rel = 1)
              /\ \A b \in 1..Len(mem) : (b # a \/ ~made) => mem'[b] = mem[b]
              /\ Len(mem') = IF made /\ is_inline(Before) THEN Len(mem) + 1 ELSE Len(mem)
    ]_vars

\* C10 witness: a non-empty inline x is inline again after a round trip
\* through a heap buffer larger than its content
C10_Witness ==
  /\ status = "run"
  /\ last.op = "round_trip"
  /\ last.who = "x"
  /\ x # Absent
  /\ is_inline(x)
  /\ len(x) > 0
  /\ last.arg > len(x)
  /\ ~mem[Len(mem)].live
  /\ mem[Len(mem)].rel = 1

\* C11 (Spec): when push / extend_from_slice makes the length exceed the
\* current capacity, the capacity afterwards is exactly the smallest power of
\* two >= the new length; otherwise the capacity is unchanged.
C11_GrowthRule ==
  [][ (last'.op \in {"push", "extend", "extend_addr"} /\ status = "run" /\ status' = "run") =>
        IF len(Before) + Len(Appended) > capacity(Before)
        THEN capacity(After) = next_power_of_two(len(Before) + Len(Appended))
        ELSE capacity(After) = capacity(Before)
    ]_vars

\* ceil(log2(n))
RECURSIVE Log2Ceil(_)
Log2Ceil(n) == IF n <= 1 THEN 0 ELSE 1 + Log2Ceil((n + 1) \div 2)

\* C12 (SpecPush): while single bytes are appended to a container built
\* empty, the capacity changes only on an append whose new length exceeds it,
\* a change of a heap capacity at least doubles it, and after N appends the
\* capacity has changed at most ceil(log2(N)) times.
C12_Amortised ==
  [][ (last'.op = "push" /\ status = "run") =>
        /\ status' = "run"
        /\ len(x') = len(x) + 1
        /\ capacity(x') # capacity(x) =>
             /\ len(x) + 1 > capacity(x)
             /\ capacity(x') >= len(x')
             /\ ~is_inline(x) => capacity(x') >= 2 * capacity(x)
        /\ reallocs' <= Log2Ceil(len(x'))
    ]_vars

\* C12 witness: the appends have promoted x and then grown its heap buffer
C12_Witness ==
  /\ status = "run"
  /\ last.op = "push"
  /\ x # Absent
  /\ ~is_inline(x)
  /\ reallocs = 2
  /\ len(x) = capacity(x)
  /\ as_slice(x, mem) = TapeSlice(0, len(x))

\* the longest prefix of the slice at (off, n) of the source text that starts
\* and ends at a char boundary
RECURSIVE TextPrefix(_, _)
TextPrefix(off, n) ==
  IF ~TapeBoundary(off) \/ n = 0 THEN 0
  ELSE IF TapeBoundary(off + n) THEN n
  ELSE TextPrefix(off, n - 1)

\* C13 (SpecUtf8): IString::from_utf8 / SmallString::from_utf8 return Ok
\* exactly when the bytes are valid UTF-8, and the text container then holds
\* those bytes; otherwise they return an error whose into_bytes() / as_bytes()
\* is the container that was passed in, unchanged, and whose utf8_error() is
\* the decode failure.  No allocation is made, released or written.
C13_FromUtf8 ==
  [][ last'.op = "from_utf8" =>
        LET ok == last.arg = 0 \/ StrOk(last.off, last.arg)
            view == IF kind = "IBytes" THEN as_slice(x', mem') ELSE small_as_slice(x', mem')
        IN /\ status' = IF ok THEN "run" ELSE "err"
           /\ kind' = IF ~ok THEN kind
                      ELSE IF kind = "IBytes" THEN "IString" ELSE "SmallString"
           /\ x' = x
           /\ mem' = mem
           /\ view = TapeSlice(last.off, last.arg)
           /\ error'.has = ~ok
           /\ ~ok => error'.valid_up_to = TextPrefix(last.off, last.arg)
    ]_vars

\* C13 witness: a heap-resident byte container that starts with text and ends
\* inside a char was rejected, and the error holds its bytes
C13_Witness ==
  /\ status = "err"
  /\ last.op = "from_utf8"
  /\ kind = "IBytes"
  /\ ~is_inline(x)
  /\ as_slice(x, mem) = LastSource
  /\ error.has
  /\ error.valid_up_to > 0
  /\ error.valid_up_to < len(x)

\* C14 (SpecCtor): TinyBytes::new(s) / TinyString::new(s) return a value
\* whose slice view equals s exactly when s has at most 7 bytes, the empty
\* slice included, and None when it has 8 or more; they never panic and
\* never allocate.
C14_TinyNew ==
  last.op \in {"tiny_new", "tiny_str_new"} =>
    /\ status = IF last.arg <= 7 THEN "run" ELSE "none"
    /\ mem = <<NoAlloc>>
    /\ status = "run" =>
         /\ x[1] = last.arg
         /\ tiny_deref(x) = LastSource
    /\ status = "none" => x = Absent

\* C14 witness: TinyString::new took a text of exactly 7 bytes
C14_Witness ==
  /\ kind = "TinyString"
  /\ status = "run"
  /\ last.op = "tiny_str_new"
  /\ last.arg = TINY_BUF
  /\ Len(tiny_deref(x)) = TINY_BUF
  /\ tiny_deref(x) = LastSource

\* the clone of a heap-resident x has a buffer of its own: an allocation made
\* by the call, which holds x's bytes and is not x's
FreshCopy ==
  /\ ~is_inline(c')
  /\ HeapPtr(c') # HeapPtr(x)
  /\ ~IsAddr(mem, HeapPtr(c'))
  /\ IsAddr(mem', HeapPtr(c'))
  /\ mem'[HeapPtr(c')].live
  /\ Len(mem') = Len(mem) + 1
  /\ \A a \in 1..Len(mem) : mem'[a] = mem[a]

\* C15 as stated (Spec): the clone of a heap-resident container is
\* heap-resident with a fresh allocation of its own, whatever its length;
\* the clone of an inline container is an inline bit copy and allocates
\* nothing.
C15_CloneHeapAlways ==
  [][ (last'.op = "clone" /\ status' = "run") =>
        /\ x' = x
        /\ as_slice(c', mem') = as_slice(x, mem)
        /\ IF is_inline(x) THEN c' = x /\ mem' = mem
           ELSE FreshCopy
    ]_vars

\* C15 (Spec): the clone of a heap-resident container of more than C bytes
\* is heap-resident with a fresh allocation of its own, of capacity len();
\* the clone of a heap-resident container of at most C bytes is inline and
\* allocates nothing; the clone of an inline container is an inline bit copy
\* and allocates nothing.  The content is the same in all three cases.
C15_Clone ==
  [][ (last'.op = "clone" /\ status' = "run") =>
        /\ x' = x
        /\ as_slice(c', mem') = as_slice(x, mem)
        /\ len(c') = len(x)
        /\ IF is_inline(x) THEN c' = x /\ mem' = mem
           ELSE IF len(x) <= INLINE_CAPACITY THEN is_inline(c') /\ mem' = mem
           ELSE FreshCopy /\ capacity(c') = len(x)
    ]_vars

\* C15 witness: the clone of a heap-resident x that holds a few bytes is
\* inline
C15_Witness ==
  /\ status = "run"
  /\ last.op = "clone"
  /\ x # Absent
  /\ c # Absent
  /\ ~is_inline(x)
  /\ len(x) > 0
  /\ is_inline(c)
  /\ as_slice(c, mem) = as_slice(x, mem)

\* C16 (Spec): with_capacity(n) returns, for n > C, a heap-resident
\* container of length 0 and capacity n and, for n <= C, an inline container
\* of length 0 and capacity C; new() returns an inline container of length 0.
C16_WithCapacity ==
  /\ last.op = "with_capacity" =>
       /\ status = "run"
       /\ len(x) = 0
       /\ as_slice(x, mem) = <<>>
       /\ IF last.arg > INLINE_CAPACITY
          THEN ~is_inline(x) /\ capacity(x) = last.arg /\ IsAddr(mem, HeapPtr(x))
          ELSE is_inline(x) /\ capacity(x) = INLINE_CAPACITY /\ mem = <<NoAlloc>>
  /\ last.op = "new" =>
       /\ status = "run"
       /\ is_inline(x)
       /\ len(x) = 0
       /\ mem = <<NoAlloc>>

\* C16 witness: with_capacity(C + 1) returned an empty heap-resident container
C16_Witness ==
  /\ status = "run"
  /\ last.op = "with_capacity"
  /\ last.arg = INLINE_CAPACITY + 1
  /\ ~is_inline(x)
  /\ len(x) = 0
  /\ capacity(x) = INLINE_CAPACITY + 1

\* C17 (Spec): move_to_heap(min_capacity) changes nothing on a heap-resident
\* container; on an inline one with min_capacity >= len() it leaves a
\* heap-resident container of capacity >= min_capacity with the same length
\* and content; with min_capacity < len() it panics and the container is
\* left as it was.
C17_MoveToHeap ==
  [][ (last'.op = "move_to_heap" /\ status = "run") =>
        IF ~is_inline(Before)
        THEN status' = "run" /\ After = Before /\ mem' = mem
        ELSE IF last'.arg >= len(Before)
        THEN /\ status' = "run"
             /\ ~is_inline(After)
             /\ capacity(After) >= last'.arg
             /\ len(After) = len(Before)
             /\ as_slice(After, mem') = as_slice(Before, mem)
        ELSE /\ status' = "panic"
             /\ After = Before
             /\ mem' = mem
    ]_vars

\* C17 witness: a non-empty inline x was moved to a heap buffer larger than
\* its content
C17_Witness ==
  /\ status = "run"
  /\ last.op = "move_to_heap"
  /\ last.who = "x"
  /\ x # Absent
  /\ ~is_inline(x)
  /\ len(x) > 0
  /\ len(x) <= INLINE_CAPACITY
  /\ last.arg > len(x)
  /\ capacity(x) = last.arg
  /\ as_slice(x, mem) = TapeSlice(0, len(x))

\* C18 (Spec): after reserve(additional) or reserve_exact(additional), in any
\* state, capacity() >= len() + additional, and the length and the content
\* are unchanged.
C18_Reserve ==
  [][ (last'.op \in {"reserve", "reserve_exact"} /\ status = "run") =>
        /\ status' = "run"
        /\ capacity(After) >= len(After) + last'.arg
        /\ len(After) = len(Before)
        /\ as_slice(After, mem') = as_slice(Before, mem)
    ]_vars

\* C18 witness: reserve(additional > 0) promoted a full inline x
C18_Witness ==
  /\ status = "run"
  /\ last.op = "reserve"
  /\ last.who = "x"
  /\ last.arg > 0
  /\ x # Absent
  /\ ~is_inline(x)
  /\ len(x) = INLINE_CAPACITY
  /\ capacity(x) = INLINE_CAPACITY + last.arg
  /\ as_slice(x, mem) = TapeSlice(0, len(x))

\* C19 (Spec): reserve_exact(additional) never rounds the capacity up: the
\* capacity afterwards is exactly the amount asked for (len() + additional,
\* or capacity() + additional as the call computes it, or the capacity it
\* had when that was enough), not a doubled or amortised size.
C19_ReserveExact ==
  [][ (last'.op = "reserve_exact" /\ status = "run" /\ status' = "run") =>
        \/ capacity(After) = len(Before) + last'.arg
        \/ capacity(After) = capacity(Before) + last'.arg
        \/ /\ capacity(After) = capacity(Before)
           /\ capacity(Before) >= len(Before) + last'.arg
    ]_vars

\* C20 (Spec): IBytes::from(Vec) / IString::from(String) of a buffer with
\* nonzero capacity holds that buffer itself, with its pointer, length and
\* capacity, and nothing is copied; with capacity 0 it is the empty inline
\* container.  x.into() is a Vec with the length and content of x's slice
\* view: x's own buffer when x is heap-resident, the buffer of a promotion
\* to capacity len() when x is inline.  So Vec -> IBytes -> Vec keeps the
\* content.
C20_VecConversion ==
  [][ /\ (last'.op = "from_vec" /\ status = "init") =>
           /\ status' = "run"
           /\ as_slice(x', mem') = TapeSlice(0, len(x'))
           /\ IF last'.arg = 0
              THEN x' = new /\ mem' = mem
              ELSE /\ ~is_inline(x')
                   /\ capacity(x') = last'.arg
                   /\ len(x') \in {last'.arg - 1, last'.arg}
                   /\ Len(mem') = Len(mem) + 1
                   /\ HeapPtr(x') = Len(mem')
                   /\ mem'[HeapPtr(x')].live
      /\ (last'.op = "into_vec" /\ status = "run") =>
           /\ status' = "run"
           /\ x' = Absent
           /\ v'.has
           /\ v'.len = len(x)
           /\ MemRead(mem', v'.ptr, v'.len) = as_slice(x, mem)
           /\ \A a \in 1..Len(mem) : mem'[a] = mem[a]
           /\ IF ~is_inline(x)
              THEN v'.ptr = HeapPtr(x) /\ v'.cap = HeapCap(x) /\ mem' = mem
              ELSE /\ v'.cap = len(x)
                   /\ len(x) > 0 =>
                        /\ Len(mem') = Len(mem) + 1
                        /\ v'.ptr = Len(mem')
                        /\ mem'[v'.ptr].live
                   /\ len(x) = 0 => mem' = mem
      /\ (last.op = "from_vec" /\ last'.op = "into_vec" /\ last.arg # 0) =>
           /\ v'.ptr = HeapPtr(x)
           /\ v'.cap = last.arg
           /\ MemRead(mem', v'.ptr, v'.len) = TapeSlice(0, len(x))
    ]_vars

\* C20 witness: a Vec of C + 1 bytes with spare capacity went into x and
\* came out again
C20_Witness ==
  /\ status = "run"
  /\ last.op = "into_vec"
  /\ x = Absent
  /\ v.has
  /\ v.len = INLINE_CAPACITY + 1
  /\ v.cap = v.len + 1
  /\ Len(mem) = 2
  /\ v.ptr = Len(mem)
  /\ MemRead(mem, v.ptr, v.len) = TapeSlice(0, v.len)

\* C21 as stated (Spec): the container built from an owned Vec<u8> / String
\* is inline iff the source length is <= C, whatever the capacity of the
\* source buffer.
C21_LengthDecides ==
  (last.op = "from_vec" /\ status = "run") =>
    (is_inline(x) <=> len(x) <= INLINE_CAPACITY)

\* C21 (Spec): the container built from an owned Vec<u8> / String is inline
\* iff the capacity of the source buffer is 0 (and it is then empty); a
\* source with a buffer is taken over heap-resident, whatever its length.
C21_CapacityDecides ==
  (last.op = "from_vec" /\ status = "run") =>
    /\ is_inline(x) <=> last.arg = 0
    /\ is_inline(x) => len(x) = 0
    /\ ~is_inline(x) => capacity(x) = last.arg
    /\ as_slice(x, mem) = TapeSlice(0, len(x))

\* C21 witness: a Vec of one byte became a heap-resident container
C21_Witness ==
  /\ status = "run"
  /\ last.op = "from_vec"
  /\ ~is_inline(x)
  /\ len(x) > 0
  /\ len(x) <= INLINE_CAPACITY
  /\ capacity(x) = len(x)

\* C22 (SpecSmall): SmallString::from_iter of a sequence of chars holds the
\* concatenation of their UTF-8 encodings, in order, each char once, and is
\* inline iff the total encoded length is <= the Small inline capacity.
C22_FromIter ==
  last.op = "small_from_iter" =>
    /\ status = "run"
    /\ small_len(x) = last.arg
    /\ small_as_slice(x, mem) = LastSource
    /\ small_is_inline(x) <=> last.arg <= SMALL_INLINE_CAPACITY

\* C22 witness: the collected chars filled part of the stack buffer, then
\* one did not fit and several more followed
C22_Witness ==
  /\ status = "run"
  /\ last.op = "small_from_iter"
  /\ last.off = 0
  /\ last.arg = Len(Tape)
  /\ ~small_is_inline(x)
  /\ small_as_slice(x, mem) = Tape

\* the half-open range [lo, hi) the last indexing asked for, n being len()
IndexLo == IF last.op \in {"range", "range_from", "range_inclusive"} THEN last.arg ELSE 0

IndexHi(n) ==
  CASE last.op \in {"range", "range_to"} -> last.off
    [] last.op \in {"range_inclusive", "range_to_inclusive"} -> last.off + 1
    [] OTHER -> n

\* C23 (SpecIndex): indexing a container with a range [a, b), or one of the
\* other range forms, returns exactly the bytes a..b of its content when
\* a <= b <= len() and panics otherwise: no byte after the content is
\* returned, whether or not the buffer has room there.
C23_RangeIndex ==
  last.op \in IndexForms =>
    LET n == Len(View)
        lo == IndexLo
        hi == IndexHi(n)
    IN /\ View = TapeSlice(0, n)
       /\ IF lo <= hi /\ hi <= n
          THEN status = "run" /\ out = TapeSlice(lo, hi - lo)
          ELSE status = "panic" /\ out = <<>>

\* C23 witness: a range that ends after the content, inside the spare room
\* of a heap buffer, was refused
C23_Witness ==
  /\ status = "panic"
  /\ last.op = "range"
  /\ kind = "IBytes"
  /\ ~is_inline(x)
  /\ last.arg < len(x)
  /\ last.off > len(x)
  /\ last.off <= capacity(x)
  /\ out = <<>>

\* C24 (Spec): a heap-resident container stays heap-resident across push,
\* extend_from_slice, reserve, reserve_exact, move_to_heap and truncate, also
\* when the length drops to C or below; a call that takes a heap-resident
\* container back to inline is a shrink().
C24_OneWay ==
  [][ (status = "run" /\ status' = "run" /\ Before # Absent /\ After # Absent
       /\ ~is_inline(Before)) =>
        /\ last'.op \in {"push", "extend", "extend_addr", "reserve", "reserve_exact",
                         "move_to_heap", "truncate"} => ~is_inline(After)
        /\ is_inline(After) => last'.op \in {"shrink", "round_trip"}
    ]_vars

\* C24 witness: a heap-resident x cut to a length <= C is still heap-resident
C24_Witness ==
  /\ status = "run"
  /\ last.op = "truncate"
  /\ last.who = "x"
  /\ x # Absent
  /\ ~is_inline(x)
  /\ len(x) = last.arg
  /\ len(x) <= INLINE_CAPACITY
  /\ capacity(x) > INLINE_CAPACITY

\* the bytes of a Base union are those of one representation, and is_inline
\* tells which
BaseLayoutOk(u) ==
  IF is_inline(u)
  THEN /\ u[UNION_SIZE] >= IS_INLINE
       /\ AndMask(InlineLen(u)) <= INLINE_CAPACITY
       /\ len(u) = AndMask(InlineLen(u))
  ELSE /\ u[UNION_SIZE] < IS_INLINE
       /\ HeapLen(u) >= 0
       /\ HeapLen(u) <= MAX_CAPACITY
       /\ len(u) = HeapLen(u)
       /\ status = "run" =>
            \/ HeapCap(u) = 0 /\ HeapPtr(u) = DANGLING
            \/ IsAddr(mem, HeapPtr(u)) /\ mem[HeapPtr(u)].live

SmallLayoutOk(u) ==
  IF small_is_inline(u)
  THEN /\ u[SMALL_UNION_SIZE] >= IS_INLINE
       /\ AndMask(u[SMALL_UNION_SIZE]) <= SMALL_INLINE_CAPACITY
       /\ small_len(u) = AndMask(u[SMALL_UNION_SIZE])
  ELSE /\ u[SMALL_UNION_SIZE] < IS_INLINE
       /\ SmallHeapLen(u) >= 0
       /\ SmallHeapLen(u) <= MAX_CAPACITY
       /\ small_len(u) = SmallHeapLen(u)
       /\ IsAddr(mem, SmallHeapPtr(u)) /\ mem[SmallHeapPtr(u)].live

\* C25 (SpecLayout): in every reachable state a Base or Small container is
\* in exactly one representation and is_inline() reports it; an inline
\* container's length (the low 7 bits of the length byte) is <= the inline
\* capacity; a heap-resident one's length is <= MAX_CAPACITY, so the top bit
\* of the heap length, which is the inline flag, is clear; and a length byte
\* holding only the inline flag reads as the heap length MAX_CAPACITY + 1.
C25_Layout ==
  /\ \A u \in {x, c} \ {Absent} :
       IF kind \in Kinds THEN BaseLayoutOk(u) ELSE SmallLayoutOk(u)
  /\ LEBytes(MAX_CAPACITY) = <<255, 255, 255, LEN_MASK>>
  /\ SubSeq(new, 2 * WORD + 1, 3 * WORD) = <<0, 0, 0, IS_INLINE>>
  /\ HeapLen(new) = (0 - MAX_CAPACITY) - 1

\* C25 witness: a heap-resident x of exactly C bytes beside its inline clone
C25_Witness ==
  /\ kind \in Kinds
  /\ status = "run"
  /\ x # Absent
  /\ c # Absent
  /\ ~is_inline(x)
  /\ is_inline(c)
  /\ len(x) = INLINE_CAPACITY
  /\ len(c) = INLINE_CAPACITY
  /\ c[UNION_SIZE] = IS_INLINE + INLINE_CAPACITY

\* the heap buffer of a Small container is an allocation of exactly len()
\* bytes
SmallExact(u) ==
  ~small_is_inline(u) =>
    /\ IsAddr(mem, SmallHeapPtr(u))
    /\ mem[SmallHeapPtr(u)].live
    /\ Len(mem[SmallHeapPtr(u)].buf) = small_len(u)

\* C26 (SpecSmall): a heap-resident SmallBytes / SmallString built from a
\* slice, from a Vec / String of any capacity, from a char iterator or by
\* clone owns a buffer of exactly len() bytes; the clone's buffer is another
\* allocation with the same content; and every drop releases a buffer of
\* exactly the size it names, once.
C26_NoSlack ==
  /\ status \in {"init", "run"}
  /\ wild = FALSE
  /\ \A u \in {x, c} \ {Absent} : SmallExact(u)
  /\ (x # Absent /\ c # Absent) =>
       /\ small_as_slice(c, mem) = small_as_slice(x, mem)
       /\ small_is_inline(c) <=> small_is_inline(x)
       /\ ~small_is_inline(x) => SmallHeapPtr(c) # SmallHeapPtr(x)
  /\ \A a \in 1..Len(mem) : mem[a].rel <= 1

\* C26 witness: a heap-resident x and its clone, each with a buffer of its own
C26_Witness ==
  /\ status = "run"
  /\ last.op = "small_clone"
  /\ x # Absent
  /\ c # Absent
  /\ ~small_is_inline(x)
  /\ ~small_is_inline(c)
  /\ SmallHeapPtr(c) # SmallHeapPtr(x)
  /\ Len(mem[SmallHeapPtr(c)].buf) = small_len(x)
  /\ Len(mem[SmallHeapPtr(x)].buf) = small_len(x)

\* C27 (Spec): with_capacity(n) panics on its assertion, and returns no
\* container, when n >= MAX_CAPACITY; for n < MAX_CAPACITY the assertion
\* passes: the call goes on to the allocator, and for the capacities the
\* model's memory holds it returns a container of capacity >= n.
C27_Precondition ==
  /\ last.op = "with_capacity_edge" =>
       /\ x = Absent
       /\ IF last.arg >= MAX_CAPACITY
          THEN status = "panic"
          ELSE status = "large"
  /\ last.op = "with_capacity" =>
       /\ last.arg < MAX_CAPACITY
       /\ status = "run"
       /\ x # Absent
       /\ capacity(x) >= last.arg

\* C27 witness: with_capacity(MAX_CAPACITY) panicked
C27_Witness ==
  /\ last.op = "with_capacity_edge"
  /\ last.arg = MAX_CAPACITY
  /\ status = "panic"
  /\ x = Absent

\* C28 (Spec): shrink() on an inline container is a no-op: it returns, the
\* container is inline with the length and content it had, and the allocator
\* is not touched: no allocation is released and nothing is freed at an
\* address read from the content bytes.
C28_ShrinkInline ==
  [][ (last'.op = "shrink" /\ status = "run" /\ is_inline(Before)) =>
        /\ status' = "run"
        /\ After = Before
        /\ mem' = mem
        /\ wild' = wild
    ]_vars

\* C29 (Spec): reserve(additional) and reserve_exact(additional) on an inline
\* container with len() + additional <= C, additional = 0 included, leave it
\* inline and unchanged and allocate nothing.
C29_NoNeedlessPromotion ==
  [][ ( /\ last'.op \in {"reserve", "reserve_exact"}
        /\ status = "run"
        /\ is_inline(Before)
        /\ len(Before) + last'.arg <= INLINE_CAPACITY ) =>
        /\ status' = "run"
        /\ is_inline(After)
        /\ After = Before
        /\ mem' = mem
    ]_vars

\* C30 (SpecSmall): a SmallBytes / SmallString built by new, from a slice,
\* from a Vec / String, from a char, from a char iterator or by clone is
\* heap-resident iff its length exceeds the Small inline capacity; a Vec or
\* String no longer than that is copied inline and its buffer released,
\* spare capacity or not.
C30_SmallThreshold ==
  /\ status \in {"init", "run"}
  /\ \A u \in {x, c} \ {Absent} :
       ~small_is_inline(u) <=> small_len(u) > SMALL_INLINE_CAPACITY
  /\ (last.op = "small_from_vec" /\ last.arg <= SMALL_INLINE_CAPACITY) =>
       /\ small_is_inline(x)
       /\ small_as_slice(x, mem) = TapeSlice(last.off, last.arg)
       /\ \A a \in 1..Len(mem) : ~mem[a].live

\* C30 witness: a Vec of exactly the inline capacity was copied inline and
\* its buffer released
C30_Witness ==
  /\ status = "run"
  /\ last.op = "small_from_vec"
  /\ last.arg = SMALL_INLINE_CAPACITY
  /\ small_is_inline(x)
  /\ small_len(x) = SMALL_INLINE_CAPACITY
  /\ \E a \in 1..Len(mem) : ~mem[a].live /\ mem[a].rel = 1

====
